---- MODULE Spec2Model ----
(***************************************************************************)
(* The snapshot / confirm / execute / rollback loop of the assistant core  *)
(* (src/core/superuser_assistant.py) as a state machine, with the registry *)
(* manager (src/modules/registry) and the LLM interface                    *)
(* (src/core/llm_interface.py) each under a specification of its own.      *)
(*                                                                         *)
(* A string is a sequence of tokens ("t", "/", "_", "0", ...), so that     *)
(* concatenation, splitting on the path separator and suffixes are         *)
(* computed as Python computes them.  A path is a sequence of components,  *)
(* each component a string.  A file content is a record with a kind.       *)
(***************************************************************************)
EXTENDS Integers, Sequences, FiniteSets, TLC

\* ------------------------------------------------------------- bounds

\* Wall-clock seconds run from 0 to MaxClock.
MaxClock == 1

\* Number of snapshots taken in one behaviour (besides the ones found at start).
MaxSnapshots == 1

\* Width of the formatted timestamp (the source's format has 15 characters).
TsWidth == 2

\* Longest provider response, in tokens.
MaxResponseLen == 3

\* ------------------------------------------------------------- strings and paths

Digits == <<"0", "1", "2", "3", "4", "5", "6", "7", "8", "9">>

RECURSIVE FormatFixed(_, _)
FormatFixed(n, w) ==
    IF w = 0 THEN <<>>
    ELSE FormatFixed(n \div 10, w - 1) \o <<Digits[(n % 10) + 1]>>

\* datetime.now().strftime(...): a fixed-width string of digits
strftime(now) == FormatFixed(now, TsWidth)

\* The components of a string split at "/" (empty components are dropped,
\* as pathlib does).
RECURSIVE Components(_, _)
Components(s, cur) ==
    IF s = <<>> THEN (IF cur = <<>> THEN <<>> ELSE <<cur>>)
    ELSE IF Head(s) = "/"
         THEN (IF cur = <<>> THEN <<>> ELSE <<cur>>) \o Components(Tail(s), <<>>)
         ELSE Components(Tail(s), Append(cur, Head(s)))

IsAbsolute(s) == s # <<>> /\ Head(s) = "/"

\* pathlib's base / s : an absolute right operand replaces the base
PathJoin(base, s) ==
    IF IsAbsolute(s) THEN Components(s, <<>>) ELSE base \o Components(s, <<>>)

Parent(p) == SubSeq(p, 1, Len(p) - 1)

\* Path.name
Name(p) == p[Len(p)]

\* Path.home()
Home == << <<"home">> >>

TmpDir == << <<"tmp">> >>

EtcDir == << <<"etc">> >>

\* self.backup_dir
backup_dir == Home \o << <<".superuser-backups">> >>

BashrcPath == Home \o << <<".bashrc">> >>

SshConfigPath == Home \o << <<".ssh">>, <<"config">> >>

HostsPath == EtcDir \o << <<"hosts">> >>

\* a user file that no snapshot ever covers
NotesPath == Home \o << <<"notes.txt">> >>

OriginalPaths == {BashrcPath, SshConfigPath, HostsPath, NotesPath}

\* directories that exist independently of the assistant
BaseDirs == {<<>>, Home, TmpDir, EtcDir, Home \o << <<".ssh">> >>, backup_dir}

NoFile == "<absent>"

MetadataName == <<"metadata.json">>

RegBackupName == <<"registry_backup.reg">>

TextFile(t) == [kind |-> "text", text |-> t]

RegFile(r) == [kind |-> "reg", reg |-> r]

\* ------------------------------------------------------------- state

VARIABLES
    os_name,     \* os.name: "posix" or "nt"
    clock,       \* the wall clock, in seconds
    originals,   \* content of each original file, or NoFile
    registry,    \* HKEY_CURRENT_USER (meaningful on nt)
    dirs,        \* directories created under/outside the backup root: path -> (file name -> content)
    pc,          \* position of the process: idle, confirm, execute, rollback_prompt, exited
    loc,         \* locals of the safe_execute call in progress
    created,     \* snapshots returned by create_system_snapshot so far
    obs,         \* what the current / last CLI invocation did and returned
    imported,    \* modules.registry: "no" (not imported), "yes", or "error" (import raised)
    manager,     \* the RegistryManager instance: whether it is made, and self.available
    hive,        \* the registry as winreg and reg.exe see it: key -> (value name -> value)
    backup_files,\* the .reg files in RegistryManager.backup_dir: name -> exported key
    rcall,       \* what the last RegistryManager call did and how it ended
    llm          \* the last LLMInterface call: the provider's response and the outcome

\* the state of the assistant core (src/core/superuser_assistant.py)
core == <<os_name, clock, originals, registry, dirs, pc, loc, created, obs>>

\* the state of the registry module and of the LLM interface
periphery == <<imported, manager, hive, backup_files, rcall, llm>>

vars == <<os_name, clock, originals, registry, dirs, pc, loc, created, obs,
          imported, manager, hive, backup_files, rcall, llm>>

Exists(d, p) == p \in BaseDirs \/ p \in DOMAIN d

\* Path.mkdir(exist_ok=True) without parents=True: succeeds when the directory
\* exists or its parent does; raises FileNotFoundError otherwise.
MkdirRaises(d, p) == ~Exists(d, p) /\ ~Exists(d, Parent(p))

EmptyDir == [n \in {} |-> TextFile("")]

Entries(d, p) == IF p \in DOMAIN d THEN d[p] ELSE EmptyDir

\* ------------------------------------------------------------- create_system_snapshot

\* the config files create_system_snapshot backs up (None entries are skipped)
config_files == {BashrcPath, SshConfigPath, HostsPath}

Metadata(snapshot_id, timestamp, operation_name, osn) ==
    [kind |-> "json", snapshot_id |-> snapshot_id, timestamp |-> timestamp,
     operation |-> operation_name, system |-> osn]

\* (mutant) one try block around the whole loop: a copy that raises ends it
copied_files_until_failure(orig, failed) ==
    IF \E p \in config_files : orig[p] # NoFile /\ p \in failed
    THEN {}
    ELSE {p \in config_files : orig[p] # NoFile}

\* the config files the backup loop copies: those that exist and whose copy
\* does not raise
copied_files(orig, failed) ==
    {p \in config_files : orig[p] # NoFile /\ p \notin failed}

\* create_system_snapshot(operation_name) at time now.  failed: the config
\* files whose copy raises; export_ok: whether "reg export" exits 0.
\* Result: raised (mkdir raised, nothing was written), the snapshot id and
\* the directories afterwards.
create_system_snapshot(d, orig, reg, osn, now, operation_name, failed, export_ok) ==
    LET timestamp == strftime(now)
        snapshot_id == operation_name \o <<"_">> \o timestamp
        snapshot_dir == PathJoin(backup_dir, snapshot_id)
        before == Entries(d, snapshot_dir)
        regs == IF osn = "nt" /\ export_ok
                THEN (RegBackupName :> RegFile(reg))
                ELSE EmptyDir
        copied == copied_files(orig, failed)
        copies == [n \in {Name(p) : p \in copied} |->
                     TextFile(orig[CHOOSE p \in copied : Name(p) = n])]
        meta == (MetadataName :> Metadata(snapshot_id, timestamp, operation_name, osn))
    IN  IF MkdirRaises(d, snapshot_dir)
        THEN [raised |-> TRUE, snapshot_id |-> snapshot_id, dirs |-> d]
        ELSE [raised |-> FALSE, snapshot_id |-> snapshot_id,
              dirs |-> (snapshot_dir :> (meta @@ copies @@ regs @@ before)) @@ d]

\* the config files whose copy into the snapshot was attempted and raised
copy_failures(d, orig, now, operation_name, failed) ==
    IF MkdirRaises(d, PathJoin(backup_dir, operation_name \o <<"_">> \o strftime(now)))
    THEN {}
    ELSE {p \in config_files : orig[p] # NoFile /\ p \in failed}

\* ------------------------------------------------------------- rollback_snapshot

NoPath == << <<"<none>">> >>

\* (mutant) config is looked for in the home directory, not in ~/.ssh
original_location_flat(name) ==
    IF name \in {<<".bashrc">>, <<"config">>}
    THEN Home \o <<name>>
    ELSE IF name = <<"hosts">>
         THEN << <<"etc">>, <<"hosts">> >>
         ELSE NoPath

\* (mutant) a name outside the table is restored into the home directory
original_location_any(name) ==
    IF name = <<"config">>
    THEN Home \o << <<".ssh">>, <<"config">> >>
    ELSE IF name = <<"hosts">>
         THEN << <<"etc">>, <<"hosts">> >>
         ELSE Home \o <<name>>

\* "Determine original location": the fixed restoration table
original_location(name) ==
    IF name \in {<<".bashrc">>, <<"config">>}
    THEN IF name = <<"config">>
         THEN Home \o << <<".ssh">>, <<"config">> >>
         ELSE Home \o <<name>>
    ELSE IF name = <<"hosts">>
         THEN << <<"etc">>, <<"hosts">> >>
         ELSE NoPath

\* the files of the snapshot directory the restore loop copies back
restorable(entries) ==
    {n \in DOMAIN entries :
        /\ n \notin {MetadataName, RegBackupName}
        /\ original_location(n) # NoPath}

\* (mutant) a failed registry import is logged and the rollback goes on
restore_snapshot_ignore_import(d, orig, reg, osn, snapshot_id, failed, import_ok) ==
    LET entries == Entries(d, PathJoin(backup_dir, snapshot_id))
        done == {n \in restorable(entries) : n \notin failed}
    IN  [result |-> TRUE,
         originals |-> [p \in DOMAIN orig |->
                          IF \E n \in done : original_location(n) = p
                          THEN entries[CHOOSE n \in done : original_location(n) = p].text
                          ELSE orig[p]],
         registry |-> IF osn = "nt" /\ RegBackupName \in DOMAIN entries /\ import_ok
                      THEN entries[RegBackupName].reg ELSE reg]

\* (mutant) a copy back that raises ends the rollback with False
restore_snapshot_strict(d, orig, reg, osn, snapshot_id, failed, import_ok) ==
    LET entries == Entries(d, PathJoin(backup_dir, snapshot_id))
        has_reg == osn = "nt" /\ RegBackupName \in DOMAIN entries
        after == IF has_reg /\ import_ok THEN entries[RegBackupName].reg ELSE reg
    IN  IF (has_reg /\ ~import_ok) \/ failed \cap restorable(entries) # {}
        THEN [result |-> FALSE, originals |-> orig, registry |-> after]
        ELSE [result |-> TRUE,
              originals |-> [p \in DOMAIN orig |->
                  IF \E n \in restorable(entries) : original_location(n) = p
                  THEN entries[CHOOSE n \in restorable(entries) :
                                   original_location(n) = p].text
                  ELSE orig[p]],
              registry |-> after]

\* (mutant) the restore loop runs first and the registry import after it
restore_snapshot_files_first(d, orig, reg, osn, snapshot_id, failed, import_ok) ==
    LET entries == Entries(d, PathJoin(backup_dir, snapshot_id))
        has_reg == osn = "nt" /\ RegBackupName \in DOMAIN entries
        done == {n \in restorable(entries) : n \notin failed}
    IN  [result |-> ~(has_reg /\ ~import_ok),
         originals |-> [p \in DOMAIN orig |->
                          IF \E n \in done : original_location(n) = p
                          THEN entries[CHOOSE n \in done : original_location(n) = p].text
                          ELSE orig[p]],
         registry |-> IF has_reg /\ import_ok THEN entries[RegBackupName].reg ELSE reg]

\* rollback_snapshot past its existence check: the registry import, then the
\* restore loop.  failed: the file names whose copy back raises; import_ok:
\* whether "reg import" exits 0.
restore_snapshot(d, orig, reg, osn, snapshot_id, failed, import_ok) ==
    LET snapshot_dir == PathJoin(backup_dir, snapshot_id)
        entries == Entries(d, snapshot_dir)
        has_reg == osn = "nt" /\ RegBackupName \in DOMAIN entries
        done == {n \in restorable(entries) : n \notin failed}
        restored == [p \in DOMAIN orig |->
                       IF \E n \in done : original_location(n) = p
                       THEN entries[CHOOSE n \in done : original_location(n) = p].text
                       ELSE orig[p]]
    IN  IF has_reg /\ ~import_ok
        THEN [result |-> FALSE, originals |-> orig, registry |-> reg]
        ELSE [result |-> TRUE, originals |-> restored,
              registry |-> IF has_reg THEN entries[RegBackupName].reg ELSE reg]

\* the files of the snapshot whose copy back was attempted and raised
not_restored(d, snapshot_id, failed) ==
    failed \cap restorable(Entries(d, PathJoin(backup_dir, snapshot_id)))

\* how the "reg import" of rollback_snapshot ended: "none" when it was not
\* run (not Windows, no such snapshot, no export in it), else "ok" or "failed"
reg_import(d, osn, snapshot_id, import_ok) ==
    IF osn = "nt" /\ RegBackupName \in DOMAIN Entries(d, PathJoin(backup_dir, snapshot_id))
    THEN (IF import_ok THEN "ok" ELSE "failed")
    ELSE "none"

\* (mutant) the existence check is missing
rollback_snapshot_unchecked(d, orig, reg, osn, snapshot_id, failed, import_ok) ==
    restore_snapshot(d, orig, reg, osn, snapshot_id, failed, import_ok)

\* rollback_snapshot(snapshot_id): the returned bool, and the original files
\* and the registry afterwards
rollback_snapshot(d, orig, reg, osn, snapshot_id, failed, import_ok) ==
    IF ~Exists(d, PathJoin(backup_dir, snapshot_id))
    THEN [result |-> FALSE, originals |-> orig, registry |-> reg]
    ELSE restore_snapshot(d, orig, reg, osn, snapshot_id, failed, import_ok)

\* ------------------------------------------------------------- list_snapshots

DigitRank(c) == CHOOSE i \in DOMAIN Digits : Digits[i] = c

\* a <= b in Python's string order, for strings of digits
RECURSIVE StrLeq(_, _)
StrLeq(a, b) ==
    IF a = <<>> THEN TRUE
    ELSE IF b = <<>> THEN FALSE
    ELSE IF Head(a) = Head(b) THEN StrLeq(Tail(a), Tail(b))
    ELSE DigitRank(Head(a)) < DigitRank(Head(b))

Perms(S) ==
    {s \in [1..Cardinality(S) -> S] : \A x \in S : \E i \in DOMAIN s : s[i] = x}

\* (mutant) reverse=True is missing: ascending order
goes_after_ascending(x, y) == StrLeq(y.timestamp, x.timestamp)

\* in a sort by timestamp with reverse=True, x (met later) goes after y
goes_after(x, y) == StrLeq(x.timestamp, y.timestamp)

\* x put into the sorted sequence s, after every record it goes after (the
\* sort is stable)
RECURSIVE insert_sorted(_, _)
insert_sorted(x, s) ==
    IF s = <<>> THEN <<x>>
    ELSE IF goes_after(x, Head(s))
         THEN <<Head(s)>> \o insert_sorted(x, Tail(s))
         ELSE <<x>> \o s

\* sorted(snapshots, key=lambda x: x['timestamp'], reverse=True)
RECURSIVE sorted_by_timestamp(_)
sorted_by_timestamp(snapshots) ==
    IF snapshots = <<>> THEN <<>>
    ELSE insert_sorted(snapshots[Len(snapshots)],
                       sorted_by_timestamp(SubSeq(snapshots, 1, Len(snapshots) - 1)))

\* the possible results of the sort: the scan meets the directories in an
\* arbitrary order (iterdir)
sorted_newest_first(S) == {sorted_by_timestamp(s) : s \in Perms(S)}

\* the metadata records json.load returns: one per subdirectory of the backup
\* root whose metadata.json exists and parses
loaded_metadata(d) ==
    {d[p][MetadataName] :
        p \in {q \in DOMAIN d : /\ Parent(q) = backup_dir
                                /\ MetadataName \in DOMAIN d[q]
                                /\ d[q][MetadataName].kind = "json"}}

\* list_snapshots(): the possible outcomes.  raised: the sort key lookup
\* x['timestamp'] raised KeyError.
list_snapshots(d) ==
    IF \E m \in loaded_metadata(d) : "timestamp" \notin DOMAIN m
    THEN {[raised |-> TRUE, value |-> <<>>]}
    ELSE {[raised |-> FALSE, value |-> s] : s \in sorted_newest_first(loaded_metadata(d))}

\* ------------------------------------------------------------- inputs

\* operation names a caller may pass (--operation)
OperationNames == {<<"a", "/", "b">>, <<"/", "tmp", "/", "x">>}

\* command strings a caller may pass (--command)
Commands == {<<"cmd">>, <<>>}

EndOfFile == <<"<EOF>">>

NoAnswer == <<"<none>">>

\* what the user may type at a prompt
Answers == {<<"y", "e", "s">>, <<"Y">>, <<"n", "o">>, <<>>}

\* what input() may deliver: a line, or EOFError
PromptOutcomes == Answers \cup {EndOfFile}

LowerChar(c) ==
    CASE c = "Y" -> "y"
      [] c = "E" -> "e"
      [] c = "S" -> "s"
      [] c = "N" -> "n"
      [] c = "O" -> "o"
      [] OTHER -> c

\* str.lower()
lower(s) == [i \in DOMAIN s |-> LowerChar(s[i])]

\* (mutant) an empty answer counts as yes
affirmative_default_yes(response) == response \in {<<"y", "e", "s">>, <<"y">>, <<>>}

\* response in ['yes', 'y']
affirmative(response) == response \in {<<"y", "e", "s">>, <<"y">>}

TimedOutText == "Command timed out"

CancelledText == "Operation cancelled"

EofText == "EOF when reading a line"

LaunchErrorText == "launch error"

\* how subprocess.run may end: a CompletedProcess, TimeoutExpired, or OSError
CmdOutcomes ==
    {[kind |-> "exit", returncode |-> 0, stdout |-> "out", stderr |-> ""],
     [kind |-> "exit", returncode |-> 1, stdout |-> "out", stderr |-> "err"],
     [kind |-> "exit", returncode |-> 1, stdout |-> "", stderr |-> TimedOutText],
     [kind |-> "timeout", returncode |-> 0, stdout |-> "", stderr |-> ""],
     [kind |-> "oserror", returncode |-> 0, stdout |-> "", stderr |-> ""]}

NoCmd == [kind |-> "none", returncode |-> 0, stdout |-> "", stderr |-> ""]

\* what the executed command may do to the files and the registry
\* (nothing, or a rewrite of ~/.bashrc together with a registry change)
CmdEffects ==
    {[path |-> NoPath, to |-> NoFile, reg |-> FALSE],
     [path |-> BashrcPath, to |-> "v1", reg |-> TRUE]}

\* which copies may raise during one snapshot, and during one rollback
BackupFailures == {{}, {BashrcPath}}

RestoreFailures == {{}, {<<".bashrc">>}}

ApplyEffect(orig, e) ==
    [p \in DOMAIN orig |-> IF p = e.path THEN e.to ELSE orig[p]]

\* ------------------------------------------------------------- modules.registry

\* sys.platform
sys_platform == IF os_name = "nt" THEN "win32" ELSE "linux"

\* the names winreg defines for the root keys
RootKeys == {"HKEY_CURRENT_USER", "HKEY_LOCAL_MACHINE"}

\* a key path is a string: tokens, with "\\" the separator
AppKey == <<"HKEY_CURRENT_USER", "\\", "App">>

\* the same key under the abbreviation reg.exe accepts and winreg does not have
AppKeyShort == <<"HKCU", "\\", "App">>

\* a key that does not exist
GoneKey == <<"HKEY_CURRENT_USER", "\\", "Gone">>

KeyPaths == {AppKey, AppKeyShort, GoneKey}

ValueNames == {"n"}

Values == {"a", "b"}

\* errors the registry API may raise besides not-found
Faults == {"none", "PermissionError"}

CapabilityError == "RuntimeError: Registry operations not available on this platform"

BackupError == "RuntimeError: Failed to create registry backup"

\* key_path.split('\\', 1)[0]
root_name(key_path) == Head(key_path)

\* the key reg.exe resolves a path to
reg_exe_key(key_path) ==
    IF Head(key_path) = "HKCU" THEN <<"HKEY_CURRENT_USER">> \o Tail(key_path) ELSE key_path

NoBackup == <<"<none>">>

NoValue == "<null>"

\* backup_dir / f"registry_backup_{timestamp}.reg"
reg_backup_file(now) == <<"registry_backup_">> \o strftime(now) \o <<".reg">>

\* create_backup(key_path): raises, or returns the file "reg export" wrote
create_backup(available, hv, files, now, key_path, export_ok) ==
    IF ~available
    THEN [error |-> CapabilityError, backup_file |-> NoBackup, files |-> files,
          steps |-> <<>>]
    ELSE IF export_ok /\ reg_exe_key(key_path) \in DOMAIN hv
    THEN [error |-> "none", backup_file |-> reg_backup_file(now),
          files |-> (reg_backup_file(now) :>
                        [key |-> reg_exe_key(key_path), values |-> hv[reg_exe_key(key_path)]])
                    @@ files,
          steps |-> <<"export">>]
    ELSE [error |-> BackupError, backup_file |-> NoBackup, files |-> files,
          steps |-> <<"export">>]

\* restore_backup(backup_file): raises, or returns whether "reg import" exited 0
restore_backup(available, hv, files, backup_file, import_ok) ==
    IF ~available
    THEN [error |-> CapabilityError, result |-> FALSE, hive |-> hv, steps |-> <<>>]
    ELSE IF backup_file \notin DOMAIN files
    THEN [error |-> "FileNotFoundError", result |-> FALSE, hive |-> hv, steps |-> <<>>]
    ELSE IF import_ok
    THEN [error |-> "none", result |-> TRUE,
          hive |-> (files[backup_file].key :>
                      (files[backup_file].values @@
                       (IF files[backup_file].key \in DOMAIN hv
                        THEN hv[files[backup_file].key]
                        ELSE [n \in {} |-> NoValue])))
                   @@ hv,
          steps |-> <<"import">>]
    ELSE [error |-> "none", result |-> FALSE, hive |-> hv, steps |-> <<"import">>]

\* read_value(key_path, value_name): the value, None for a key or value that
\* is not there, or the error raised
read_value(available, hv, key_path, value_name, fault) ==
    IF ~available
    THEN [error |-> CapabilityError, value |-> NoValue, steps |-> <<>>]
    ELSE IF root_name(key_path) \notin RootKeys
    THEN [error |-> "AttributeError", value |-> NoValue, steps |-> <<>>]
    ELSE IF key_path \notin DOMAIN hv \/ value_name \notin DOMAIN hv[key_path]
    THEN [error |-> "none", value |-> NoValue, steps |-> <<"read">>]
    ELSE IF fault # "none"
    THEN [error |-> fault, value |-> NoValue, steps |-> <<"read">>]
    ELSE [error |-> "none", value |-> hv[key_path][value_name], steps |-> <<"read">>]

\* the try block of write_value: CreateKey and SetValueEx
set_value(hv, key_path, value_name, value, fault) ==
    IF root_name(key_path) \notin RootKeys
    THEN [error |-> "AttributeError", hive |-> hv]
    ELSE IF fault # "none"
    THEN [error |-> fault, hive |-> hv]
    ELSE [error |-> "none",
          hive |-> (key_path :>
                      ((value_name :> value) @@
                       (IF key_path \in DOMAIN hv THEN hv[key_path]
                        ELSE [n \in {} |-> NoValue])))
                   @@ hv]

\* the try block of delete_value: OpenKey and DeleteValue
unset_value(hv, key_path, value_name, fault) ==
    IF root_name(key_path) \notin RootKeys
    THEN [error |-> "AttributeError", hive |-> hv]
    ELSE IF key_path \notin DOMAIN hv \/ value_name \notin DOMAIN hv[key_path]
    THEN [error |-> "FileNotFoundError", hive |-> hv]
    ELSE IF fault # "none"
    THEN [error |-> fault, hive |-> hv]
    ELSE [error |-> "none",
          hive |-> [k \in DOMAIN hv |->
                      IF k = key_path
                      THEN [n \in DOMAIN hv[k] \ {value_name} |-> hv[k][n]]
                      ELSE hv[k]]]

\* how a RegistryManager call ended and what it did on the way
Ended(steps, outcome, error, modify_error, hv, files, backup_file, restored) ==
    [steps |-> steps, outcome |-> outcome, error |-> error, modify_error |-> modify_error,
     hive |-> hv, files |-> files, backup_file |-> backup_file, restored |-> restored]

\* (mutant) the error is re-raised without the restore
except_handler_reraise_only(available, hv, files, backup_file, error, import_ok) ==
    [steps |-> <<>>, restored |-> NoBackup, error |-> error, hive |-> hv]

\* "except Exception as e": restore_backup(backup_file), then raise
except_handler(available, hv, files, backup_file, error, import_ok) ==
    [steps |-> <<"restore_backup">>,
     restored |-> backup_file,
     error |-> IF restore_backup(available, hv, files, backup_file, import_ok).error # "none"
               THEN restore_backup(available, hv, files, backup_file, import_ok).error
               ELSE error,
     hive |-> restore_backup(available, hv, files, backup_file, import_ok).hive]

\* write_value(key_path, value_name, value)
write_value(available, hv, files, now, key_path, value_name, value, export_ok, fault, import_ok) ==
    LET b == create_backup(available, hv, files, now, key_path, export_ok)
        m == set_value(hv, key_path, value_name, value, fault)
        h == except_handler(available, hv, b.files, b.backup_file, m.error, import_ok)
    IN  IF ~available
        THEN Ended(<<>>, "raise", CapabilityError, "none", hv, files, NoBackup, NoBackup)
        ELSE IF b.error # "none"
        THEN Ended(<<"create_backup">>, "raise", b.error, "none", hv, b.files,
                   NoBackup, NoBackup)
        ELSE IF m.error = "none"
        THEN Ended(<<"create_backup", "modify">>, "return True", "none", "none",
                   m.hive, b.files, b.backup_file, NoBackup)
        ELSE Ended(<<"create_backup", "modify">> \o h.steps, "raise", h.error, m.error,
                   h.hive, b.files, b.backup_file, h.restored)

\* delete_value(key_path, value_name)
delete_value(available, hv, files, now, key_path, value_name, export_ok, fault, import_ok) ==
    LET b == create_backup(available, hv, files, now, key_path, export_ok)
        m == unset_value(hv, key_path, value_name, fault)
        h == except_handler(available, hv, b.files, b.backup_file, m.error, import_ok)
    IN  IF ~available
        THEN Ended(<<>>, "raise", CapabilityError, "none", hv, files, NoBackup, NoBackup)
        ELSE IF b.error # "none"
        THEN Ended(<<"create_backup">>, "raise", b.error, "none", hv, b.files,
                   NoBackup, NoBackup)
        ELSE IF m.error = "none"
        THEN Ended(<<"create_backup", "modify">>, "return True", "none", "none",
                   m.hive, b.files, b.backup_file, NoBackup)
        ELSE IF m.error = "FileNotFoundError"
        THEN Ended(<<"create_backup", "modify">>, "return False", "none", m.error,
                   hv, b.files, b.backup_file, NoBackup)
        ELSE Ended(<<"create_backup", "modify">> \o h.steps, "raise", h.error, m.error,
                   h.hive, b.files, b.backup_file, h.restored)

\* self.available as __init__ sets it
registry_available(platform, has_winreg) ==
    IF platform # "win32" THEN FALSE
    ELSE IF ~has_winreg THEN FALSE
    ELSE TRUE

NoManager == [made |-> FALSE, available |-> FALSE]

NoCall ==
    [op |-> "none", key |-> <<>>, steps |-> <<>>, outcome |-> "none", error |-> "none",
     modify_error |-> "none", backup_file |-> NoBackup, restored |-> NoBackup,
     value |-> NoValue, at |-> 0]

InitHive == (AppKey :> ("n" :> "a"))

NoFiles == [f \in {} |-> [key |-> <<>>, values |-> [n \in {} |-> NoValue]]]

NoLlm ==
    [called |-> FALSE, response |-> <<>>,
     result |-> [kind |-> "none", error |-> "none", parsed |-> <<>>]]

\* nothing of the registry module or of the LLM interface has been used
PeripheryIdle ==
    /\ imported = "no"
    /\ manager = NoManager
    /\ hive = InitHive
    /\ backup_files = NoFiles
    /\ rcall = NoCall
    /\ llm = NoLlm

\* ------------------------------------------------------------- initial state

OldTimestamp == strftime(0)

OldId == <<"old", "_">> \o OldTimestamp

PartialId == <<"partial", "_">> \o OldTimestamp

CorruptId == <<"corrupt", "_">> \o OldTimestamp

MissingId == <<"gone", "_">> \o OldTimestamp

\* What earlier runs and the user have left in the backup root: a complete
\* snapshot of this machine that also holds a file outside the restoration table, an empty
\* snapshot directory (no metadata.json), and one whose metadata.json is not JSON.
InitDirs(osn) ==
    ((backup_dir \o <<OldId>>) :>
        ((MetadataName :> Metadata(OldId, OldTimestamp, <<"old">>, osn))
         @@ (IF osn = "nt" THEN (RegBackupName :> RegFile("r0")) ELSE EmptyDir)
         @@ (<<".bashrc">> :> TextFile("v1"))
         @@ (<<"config">> :> TextFile("v1"))
         @@ (<<"notes.txt">> :> TextFile("v1"))))
    @@ ((backup_dir \o <<PartialId>>) :> EmptyDir)
    @@ ((backup_dir \o <<CorruptId>>) :> (MetadataName :> TextFile("not json")))

InitOriginals(osn) ==
    [p \in OriginalPaths |-> IF p = HostsPath /\ osn = "nt" THEN NoFile ELSE "v0"]

NoRet == [kind |-> "none", success |-> FALSE, stdout |-> "", stderr |-> ""]

NoRb ==
    [called |-> FALSE, id |-> <<>>, existed |-> FALSE, failed |-> {},
     import |-> "none", result |-> FALSE]

NoLocals ==
    [command |-> <<>>, operation_name |-> <<>>, require_admin |-> FALSE,
     snapshot_id |-> <<>>, result |-> NoCmd]

\* nothing observed yet
NoObs ==
    [mode |-> "none", events |-> <<>>, exit |-> "none", ret |-> NoRet,
     response |-> NoAnswer, rollback |-> NoAnswer, rb |-> NoRb, cmd |-> NoCmd,
     snapshot |-> <<>>, raised |-> FALSE, backup_failed |-> {}, novalue |-> "none"]

Init ==
    /\ os_name \in {"posix", "nt"}
    /\ clock = 0
    /\ originals = InitOriginals(os_name)
    /\ registry = "r0"
    /\ dirs = InitDirs(os_name)
    /\ pc = "idle"
    /\ loc = NoLocals
    /\ created = {}
    /\ obs = NoObs
    /\ PeripheryIdle

\* ------------------------------------------------------------- main: argv

Prog == <<"superuser.py">>

Flag(f) == <<f>>

In(x, argv) == \E i \in DOMAIN argv : argv[i] = x

\* list.index
Index(x, argv) == CHOOSE i \in DOMAIN argv : argv[i] = x /\ \A j \in 1..(i - 1) : argv[j] # x

HasValue(f, argv) == In(Flag(f), argv) /\ Index(Flag(f), argv) < Len(argv)

ValueOf(f, argv) == argv[Index(Flag(f), argv) + 1]

\* the snapshot ids a user may name on the command line
RollbackIds == {c.snapshot_id : c \in created} \cup {OldId, PartialId, CorruptId, MissingId}

Argvs ==
    {<<Prog>>,
     <<Prog, Flag("--snapshots")>>,
     <<Prog, Flag("--rollback")>>,
     <<Prog, Flag("--command")>>,
     <<Prog, Flag("--command"), <<"cmd">>, Flag("--operation")>>,
     <<Prog, Flag("--admin"), Flag("--command"), <<"cmd">> >>}
    \cup {<<Prog, Flag("--rollback"), id>> : id \in RollbackIds}
    \cup {<<Prog, Flag("--command"), c>> : c \in Commands}
    \cup {<<Prog, Flag("--command"), <<"cmd">>, Flag("--operation"), op>> :
             op \in OperationNames}

\* (mutant) the flag itself is taken as the command when no value follows it
command_of_unchecked(argv) ==
    IF HasValue("--command", argv) THEN ValueOf("--command", argv)
    ELSE IF In(Flag("--command"), argv) THEN Flag("--command")
    ELSE <<>>

\* command = None unless --command has a value
command_of(argv) == IF HasValue("--command", argv) THEN ValueOf("--command", argv) ELSE <<>>

operation_of(argv) ==
    IF HasValue("--operation", argv) THEN ValueOf("--operation", argv)
    ELSE <<"manual_command">>

\* which branch of main an argv takes
Mode(argv) ==
    IF Len(argv) < 2 THEN "usage"
    ELSE IF In(Flag("--snapshots"), argv) THEN "snapshots"
    ELSE IF In(Flag("--rollback"), argv)
         THEN (IF HasValue("--rollback", argv) THEN "rollback" ELSE "rollback_novalue")
    ELSE IF command_of(argv) # <<>> THEN "command"
    ELSE "nocommand"

\* the flag, --rollback or --command, that is the last argument, so that its
\* value is missing ("none" when neither is)
MissingValue(argv) ==
    IF In(Flag("--rollback"), argv) /\ ~HasValue("--rollback", argv) THEN "rollback"
    ELSE IF In(Flag("--command"), argv) /\ ~HasValue("--command", argv) THEN "command"
    ELSE "none"

Started(mode) == [NoObs EXCEPT !.mode = mode]

CanStart == pc = "idle"

\* python superuser.py  (no arguments): usage
MainUsage ==
    /\ CanStart
    /\ \E argv \in Argvs :
        /\ Mode(argv) = "usage"
        /\ obs' = [Started("usage") EXCEPT !.events = <<"usage">>, !.exit = "normal"]
    /\ pc' = "exited"
    /\ UNCHANGED <<os_name, clock, originals, registry, dirs, loc, created>>
    /\ UNCHANGED periphery

\* --snapshots: list_snapshots() and print each record's fields
MainSnapshots ==
    /\ CanStart
    /\ \E argv \in Argvs, r \in list_snapshots(dirs) :
        /\ Mode(argv) = "snapshots"
        /\ obs' = [Started("snapshots") EXCEPT
                     !.events = <<"list_snapshots">>,
                     !.raised = r.raised,
                     !.exit = IF r.raised
                                 \/ \E i \in DOMAIN r.value :
                                       {"snapshot_id", "operation", "timestamp"}
                                           \ DOMAIN r.value[i] # {}
                              THEN "exception" ELSE "normal"]
    /\ pc' = "exited"
    /\ UNCHANGED <<os_name, clock, originals, registry, dirs, loc, created>>
    /\ UNCHANGED periphery

\* --rollback <snapshot_id>
MainRollback ==
    /\ CanStart
    /\ \E argv \in {a \in Argvs : Mode(a) = "rollback"}, failed \in RestoreFailures,
          import_ok \in BOOLEAN :
        /\ LET snapshot_id == ValueOf("--rollback", argv)
               r == rollback_snapshot(dirs, originals, registry, os_name,
                                      snapshot_id, failed, import_ok)
           IN  /\ originals' = r.originals
               /\ registry' = r.registry
               /\ obs' = [Started("rollback") EXCEPT
                            !.novalue = MissingValue(argv),
                            !.events = <<"rollback">>,
                            !.rb = [called |-> TRUE, id |-> snapshot_id,
                                    existed |-> Exists(dirs, PathJoin(backup_dir, snapshot_id)),
                                    failed |-> not_restored(dirs, snapshot_id, failed),
                                    import |-> reg_import(dirs, os_name, snapshot_id, import_ok),
                                    result |-> r.result],
                            !.exit = "normal"]
    /\ pc' = "exited"
    /\ UNCHANGED <<os_name, clock, dirs, loc, created>>
    /\ UNCHANGED periphery

\* --rollback without a value: falls through to return
MainRollbackNoValue ==
    /\ CanStart
    /\ \E argv \in Argvs :
        /\ Mode(argv) = "rollback_novalue"
        /\ obs' = [Started("rollback_novalue") EXCEPT
                     !.novalue = MissingValue(argv), !.exit = "normal"]
    /\ pc' = "exited"
    /\ UNCHANGED <<os_name, clock, originals, registry, dirs, loc, created>>
    /\ UNCHANGED periphery

\* no usable --command: "No command specified"
MainNoCommand ==
    /\ CanStart
    /\ \E argv \in Argvs :
        /\ Mode(argv) = "nocommand"
        /\ obs' = [Started("nocommand") EXCEPT
                     !.novalue = MissingValue(argv),
                     !.events = <<"no_command">>, !.exit = "normal"]
    /\ pc' = "exited"
    /\ UNCHANGED <<os_name, clock, originals, registry, dirs, loc, created>>
    /\ UNCHANGED periphery

\* ------------------------------------------------------------- safe_execute

Return(success, stdout, stderr) ==
    [kind |-> "return", success |-> success, stdout |-> stdout, stderr |-> stderr]

Raised == [kind |-> "raise", success |-> FALSE, stdout |-> "", stderr |-> ""]

\* (mutant) every exit code that is not negative counts as success
success_nonnegative(result) == result.returncode >= 0

\* success = result.returncode == 0
success(result) == result.returncode = 0

\* (mutant) the captured stdout is dropped from the result
execution_result_no_stdout(result) == Return(success(result), "", result.stderr)

\* (mutant) a command whose failure was handled is reported as a success
execution_result_recovered(result) == Return(TRUE, result.stdout, result.stderr)

\* return success, result.stdout, result.stderr
execution_result(result) == Return(success(result), result.stdout, result.stderr)

\* (mutant) the operation name is handed over instead of the snapshot id
rollback_argument_operation(l) == l.operation_name

\* the id safe_execute hands to rollback_snapshot
rollback_argument(l) == l.snapshot_id

\* safe_execute returns: the process falls off the end of main
Finish(o, ret) ==
    [o EXCEPT !.ret = ret, !.events = Append(o.events, "return"), !.exit = "normal"]

\* --command <c>: main calls safe_execute, which first takes the snapshot
\* (outside its try block) and then blocks in the first prompt
MainCommand ==
    /\ CanStart
    /\ Cardinality(created) < MaxSnapshots
    /\ \E argv \in {a \in Argvs : Mode(a) = "command"}, failed \in BackupFailures,
          export_ok \in BOOLEAN :
        LET operation_name == operation_of(argv)
               s == create_system_snapshot(dirs, originals, registry, os_name, clock,
                                           operation_name, failed, export_ok)
               f == copy_failures(dirs, originals, clock, operation_name, failed)
           IN  IF s.raised
               THEN /\ obs' = [Started("command") EXCEPT
                                 !.novalue = MissingValue(argv),
                                 !.backup_failed = f,
                                 !.events = <<"raise">>, !.ret = Raised,
                                 !.exit = "exception"]
                    /\ pc' = "exited"
                    /\ UNCHANGED <<dirs, loc, created>>
               ELSE /\ dirs' = s.dirs
                    /\ created' = created \cup
                          {[snapshot_id |-> s.snapshot_id, operation |-> operation_name]}
                    /\ loc' = [NoLocals EXCEPT
                                 !.command = command_of(argv),
                                 !.operation_name = operation_name,
                                 !.require_admin = In(Flag("--admin"), argv),
                                 !.snapshot_id = s.snapshot_id]
                    /\ pc' = "confirm"
                    /\ obs' = [Started("command") EXCEPT
                                 !.novalue = MissingValue(argv),
                                 !.backup_failed = f,
                                 !.snapshot = s.snapshot_id,
                                 !.events = <<"snapshot", "prompt">>,
                                 !.exit = "running"]
    /\ UNCHANGED <<os_name, clock, originals, registry>>
    /\ UNCHANGED periphery

\* the first input() returns or raises EOFError
Confirm ==
    /\ pc = "confirm"
    /\ \E answer \in PromptOutcomes :
        LET o == [obs EXCEPT !.response = answer]
        IN  IF answer = EndOfFile
            THEN /\ obs' = Finish(o, Return(FALSE, "", EofText))
                 /\ pc' = "exited"
                 /\ loc' = NoLocals
            ELSE IF ~affirmative(lower(answer))
            THEN /\ obs' = Finish(o, Return(FALSE, "", CancelledText))
                 /\ pc' = "exited"
                 /\ loc' = NoLocals
            ELSE /\ obs' = [o EXCEPT !.events = Append(o.events, "execute")]
                 /\ pc' = "execute"
                 /\ loc' = loc
    /\ UNCHANGED <<os_name, clock, originals, registry, dirs, created>>
    /\ UNCHANGED periphery

\* subprocess.run(...) ends: exit code, timeout, or launch failure
Execute ==
    /\ pc = "execute"
    /\ \E out \in CmdOutcomes, e \in CmdEffects :
        /\ out.kind = "oserror" => e.path = NoPath /\ ~e.reg
        /\ originals' = ApplyEffect(originals, e)
        /\ registry' = IF e.reg /\ os_name = "nt" THEN "r1" ELSE registry
        /\ LET o == [obs EXCEPT !.cmd = out]
           IN  CASE out.kind = "timeout" ->
                      /\ obs' = Finish(o, Return(FALSE, "", TimedOutText))
                      /\ pc' = "exited"
                      /\ loc' = NoLocals
                 [] out.kind = "oserror" ->
                      /\ obs' = Finish(o, Return(FALSE, "", LaunchErrorText))
                      /\ pc' = "exited"
                      /\ loc' = NoLocals
                 [] out.kind = "exit" /\ success(out) ->
                      /\ obs' = Finish([o EXCEPT !.events = Append(o.events, "report_success")],
                                       execution_result(out))
                      /\ pc' = "exited"
                      /\ loc' = NoLocals
                 [] out.kind = "exit" /\ ~success(out) ->
                      /\ obs' = [o EXCEPT !.events =
                                    o.events \o <<"report_failure", "rollback_prompt">>]
                      /\ pc' = "rollback_prompt"
                      /\ loc' = [loc EXCEPT !.result = out]
    /\ UNCHANGED <<os_name, clock, dirs, created>>
    /\ UNCHANGED periphery

\* the second input() returns or raises EOFError; an affirmative answer
\* calls rollback_snapshot(snapshot_id)
RollbackPrompt ==
    /\ pc = "rollback_prompt"
    /\ \E answer \in PromptOutcomes :
        LET o == [obs EXCEPT !.rollback = answer]
            ret == execution_result(loc.result)
        IN  IF answer = EndOfFile
            THEN /\ obs' = Finish(o, Return(FALSE, "", EofText))
                 /\ UNCHANGED <<originals, registry>>
            ELSE IF affirmative(lower(answer))
            THEN \E failed \in RestoreFailures, import_ok \in BOOLEAN :
                    LET r == rollback_snapshot(dirs, originals, registry, os_name,
                                               rollback_argument(loc), failed, import_ok)
                    IN  /\ originals' = r.originals
                        /\ registry' = r.registry
                        /\ obs' = Finish([o EXCEPT
                                     !.events = Append(o.events, "rollback"),
                                     !.rb = [called |-> TRUE, id |-> rollback_argument(loc),
                                             existed |-> Exists(dirs,
                                                 PathJoin(backup_dir, rollback_argument(loc))),
                                             failed |-> not_restored(dirs, rollback_argument(loc), failed),
                                             import |-> reg_import(dirs, os_name,
                                                 rollback_argument(loc), import_ok),
                                             result |-> r.result]],
                                  ret)
            ELSE /\ obs' = Finish(o, ret)
                 /\ UNCHANGED <<originals, registry>>
    /\ pc' = "exited"
    /\ loc' = NoLocals
    /\ UNCHANGED <<os_name, clock, dirs, created>>
    /\ UNCHANGED periphery

\* the process has ended; the next invocation starts from a clean slate
Exit ==
    /\ pc = "exited"
    /\ pc' = "idle"
    /\ obs' = NoObs
    /\ UNCHANGED <<os_name, clock, originals, registry, dirs, loc, created>>
    /\ UNCHANGED periphery

\* a second passes (the clock is read only when a snapshot is taken)
Tick ==
    /\ pc = "idle"
    /\ clock < MaxClock
    /\ clock' = clock + 1
    /\ UNCHANGED <<os_name, originals, registry, dirs, pc, loc, created, obs>>
    /\ UNCHANGED periphery

Next ==
    \/ MainUsage
    \/ MainSnapshots
    \/ MainRollback
    \/ MainRollbackNoValue
    \/ MainCommand
    \/ MainNoCommand
    \/ Confirm
    \/ Execute
    \/ RollbackPrompt
    \/ Exit
    \/ Tick

Spec == Init /\ [][Next]_vars

\* ------------------------------------------------------------- modules.registry: the calls

\* what running the class body of RegistryManager raises: the default
\* reg_type=winreg.REG_SZ of write_value is evaluated there
class_body(has_winreg) == IF has_winreg THEN "none" ELSE "AttributeError"

\* import modules.registry: winreg is bound to the module on Windows (unless
\* its import fails) and to None elsewhere; then the class bodies run
ImportRegistry ==
    /\ imported = "no"
    /\ \E has_winreg \in (IF sys_platform = "win32" THEN BOOLEAN ELSE {FALSE}) :
        /\ imported' = IF class_body(has_winreg) = "none" THEN "yes" ELSE "error"
        /\ rcall' = [NoCall EXCEPT
                       !.op = "import",
                       !.outcome = IF class_body(has_winreg) = "none" THEN "return"
                                   ELSE "raise",
                       !.error = class_body(has_winreg),
                       !.at = clock]
    /\ UNCHANGED <<manager, hive, backup_files, llm>>
    /\ UNCHANGED core

\* RegistryManager()
NewRegistryManager ==
    /\ imported = "yes"
    /\ ~manager.made
    /\ manager' = [made |-> TRUE, available |-> registry_available(sys_platform, TRUE)]
    /\ rcall' = [NoCall EXCEPT !.op = "__init__", !.outcome = "return", !.at = clock]
    /\ UNCHANGED <<imported, hive, backup_files, llm>>
    /\ UNCHANGED core

CreateBackup ==
    /\ manager.made
    /\ \E key_path \in KeyPaths, export_ok \in BOOLEAN :
        LET r == create_backup(manager.available, hive, backup_files, clock, key_path,
                               export_ok)
        IN  /\ backup_files' = r.files
            /\ rcall' = [NoCall EXCEPT
                           !.op = "create_backup", !.key = key_path, !.steps = r.steps,
                           !.outcome = IF r.error = "none" THEN "return" ELSE "raise",
                           !.error = r.error, !.backup_file = r.backup_file,
                           !.at = clock]
    /\ UNCHANGED <<imported, manager, hive, llm>>
    /\ UNCHANGED core

\* a file name no backup was ever written under
StrayFile == <<"registry_backup_", "stray", ".reg">>

RestoreBackup ==
    /\ manager.made
    /\ \E backup_file \in DOMAIN backup_files \cup {StrayFile}, import_ok \in BOOLEAN :
        LET r == restore_backup(manager.available, hive, backup_files, backup_file,
                                import_ok)
        IN  /\ hive' = r.hive
            /\ rcall' = [NoCall EXCEPT
                           !.op = "restore_backup", !.steps = r.steps,
                           !.outcome = IF r.error # "none" THEN "raise"
                                       ELSE IF r.result THEN "return True"
                                       ELSE "return False",
                           !.error = r.error, !.restored = backup_file, !.at = clock]
    /\ UNCHANGED <<imported, manager, backup_files, llm>>
    /\ UNCHANGED core

ReadValue ==
    /\ manager.made
    /\ \E key_path \in KeyPaths, value_name \in ValueNames, fault \in Faults :
        LET r == read_value(manager.available, hive, key_path, value_name, fault)
        IN  rcall' = [NoCall EXCEPT
                        !.op = "read_value", !.key = key_path, !.steps = r.steps,
                        !.outcome = IF r.error = "none" THEN "return" ELSE "raise",
                        !.error = r.error, !.value = r.value, !.at = clock]
    /\ UNCHANGED <<imported, manager, hive, backup_files, llm>>
    /\ UNCHANGED core

\* the record of a write_value / delete_value call
Modified(op, key_path, r) ==
    [NoCall EXCEPT
       !.op = op, !.key = key_path, !.steps = r.steps, !.outcome = r.outcome,
       !.error = r.error, !.modify_error = r.modify_error,
       !.backup_file = r.backup_file, !.restored = r.restored, !.at = clock]

WriteValue ==
    /\ manager.made
    /\ \E key_path \in KeyPaths, value_name \in ValueNames, value \in Values,
          export_ok \in BOOLEAN, fault \in Faults, import_ok \in BOOLEAN :
        LET r == write_value(manager.available, hive, backup_files, clock, key_path,
                             value_name, value, export_ok, fault, import_ok)
        IN  /\ hive' = r.hive
            /\ backup_files' = r.files
            /\ rcall' = Modified("write_value", key_path, r)
    /\ UNCHANGED <<imported, manager, llm>>
    /\ UNCHANGED core

DeleteValue ==
    /\ manager.made
    /\ \E key_path \in KeyPaths, value_name \in ValueNames,
          export_ok \in BOOLEAN, fault \in Faults, import_ok \in BOOLEAN :
        LET r == delete_value(manager.available, hive, backup_files, clock, key_path,
                              value_name, export_ok, fault, import_ok)
        IN  /\ hive' = r.hive
            /\ backup_files' = r.files
            /\ rcall' = Modified("delete_value", key_path, r)
    /\ UNCHANGED <<imported, manager, llm>>
    /\ UNCHANGED core

NextRegistry ==
    \/ ImportRegistry
    \/ NewRegistryManager
    \/ CreateBackup
    \/ RestoreBackup
    \/ ReadValue
    \/ WriteValue
    \/ DeleteValue
    \/ Tick

SpecRegistry == Init /\ [][NextRegistry]_vars

\* ------------------------------------------------------------- core.llm_interface

\* Nesting depth at which json.loads gives up with RecursionError (the
\* interpreter's recursion limit, scaled to the response lengths used here).
RecursionLimit == 2

\* The tokens of a response: brackets, braces, a string literal, a number,
\* colon, comma, and a word that is not JSON (as in the mock providers' text).
Tokens == {"[", "]", "{", "}", "str", "1", ":", ",", "Mock"}

Responses == UNION {[1..n -> Tokens] : n \in 0..MaxResponseLen}

Token(t, i) == IF i \in DOMAIN t THEN t[i] ELSE "<end>"

Scanned(next) == [err |-> "none", next |-> next]

ScanFails(e) == [err |-> e, next |-> 0]

\* the JSON scanner: the value that starts at token i, at nesting depth
\* depth; limit is the depth at which RecursionError is raised
RECURSIVE scan_once(_, _, _, _)
RECURSIVE scan_items(_, _, _, _)
RECURSIVE scan_pairs(_, _, _, _)
scan_once(t, i, depth, limit) ==
    CASE Token(t, i) \in {"str", "1"} -> Scanned(i + 1)
      [] Token(t, i) = "[" ->
            IF depth >= limit THEN ScanFails("RecursionError")
            ELSE IF Token(t, i + 1) = "]" THEN Scanned(i + 2)
            ELSE scan_items(t, i + 1, depth + 1, limit)
      [] Token(t, i) = "{" ->
            IF depth >= limit THEN ScanFails("RecursionError")
            ELSE IF Token(t, i + 1) = "}" THEN Scanned(i + 2)
            ELSE scan_pairs(t, i + 1, depth + 1, limit)
      [] OTHER -> ScanFails("JSONDecodeError")

\* the items of an array, from token i to the closing bracket
scan_items(t, i, depth, limit) ==
    LET v == scan_once(t, i, depth, limit)
    IN  IF v.err # "none" THEN v
        ELSE IF Token(t, v.next) = "," THEN scan_items(t, v.next + 1, depth, limit)
        ELSE IF Token(t, v.next) = "]" THEN Scanned(v.next + 1)
        ELSE ScanFails("JSONDecodeError")

\* the pairs of an object, from token i to the closing brace
scan_pairs(t, i, depth, limit) ==
    IF Token(t, i) # "str" \/ Token(t, i + 1) # ":" THEN ScanFails("JSONDecodeError")
    ELSE LET v == scan_once(t, i + 2, depth, limit)
         IN  IF v.err # "none" THEN v
             ELSE IF Token(t, v.next) = "," THEN scan_pairs(t, v.next + 1, depth, limit)
             ELSE IF Token(t, v.next) = "}" THEN Scanned(v.next + 1)
             ELSE ScanFails("JSONDecodeError")

\* the exception a decode of the whole text raises, or "none"
decode(t, limit) ==
    IF scan_once(t, 1, 0, limit).err # "none" THEN scan_once(t, 1, 0, limit).err
    ELSE IF scan_once(t, 1, 0, limit).next # Len(t) + 1 THEN "JSONDecodeError"
    ELSE "none"

\* json.loads(response): the exception it raises, or "none"
json_loads(response) == decode(response, RecursionLimit)

ErrorRecord == [kind |-> "return", error |-> "Failed to parse command", parsed |-> <<>>]

\* parse_natural_language_command, given the provider's response: the parsed
\* value, the error record, or the exception that leaves the method
parse_natural_language_command(response) ==
    IF json_loads(response) = "none"
    THEN [kind |-> "return", error |-> "none", parsed |-> response]
    ELSE IF json_loads(response) = "JSONDecodeError"
    THEN ErrorRecord
    ELSE [kind |-> "raise", error |-> json_loads(response), parsed |-> <<>>]

\* LLMInterface.parse_natural_language_command(user_input): the provider
\* answers with some text
ParseNaturalLanguageCommand ==
    /\ \E response \in Responses :
        llm' = [called |-> TRUE, response |-> response,
                result |-> parse_natural_language_command(response)]
    /\ UNCHANGED <<imported, manager, hive, backup_files, rcall>>
    /\ UNCHANGED core

NextLLM == ParseNaturalLanguageCommand

SpecLLM == Init /\ [][NextLLM]_vars

\* ------------------------------------------------------------- a hand-edited backup root

EditedId == <<"edited", "_">> \o OldTimestamp

\* json.load of a metadata.json that holds the JSON text {} : a dict without keys
EmptyJson == [kind |-> "json"]

\* The backup root as before, plus a snapshot directory whose metadata.json
\* was overwritten with a JSON document that is not a metadata record.
EditedDirs(osn) ==
    ((backup_dir \o <<EditedId>>) :> (MetadataName :> EmptyJson)) @@ InitDirs(osn)

InitEdited ==
    /\ os_name \in {"posix", "nt"}
    /\ clock = 0
    /\ originals = InitOriginals(os_name)
    /\ registry = "r0"
    /\ dirs = EditedDirs(os_name)
    /\ pc = "idle"
    /\ loc = NoLocals
    /\ created = {}
    /\ obs = NoObs
    /\ PeripheryIdle

SpecEdited == InitEdited /\ [][Next]_vars

\* ------------------------------------------------------------- properties

\* "yes" or "y" in any mix of upper and lower case
YesSpellings ==
    {<<a, b, c>> : a \in {"y", "Y"}, b \in {"e", "E"}, c \in {"s", "S"}}
    \cup {<<"y">>, <<"Y">>}

\* the user typed a line at the prompt, and it is not a yes
Declined(answer) == answer \notin {NoAnswer, EndOfFile} /\ answer \notin YesSpellings

Occurs(e, events) == \E i \in DOMAIN events : events[i] = e

Cancelled == Return(FALSE, "", CancelledText)

\* C1: in safe_execute, an answer to the first prompt other than yes / y (in
\* any case) means the command is never executed, rollback_snapshot is never
\* invoked, and the call returns (False, "", "Operation cancelled").
C1_DeclineCancels ==
    (obs.mode = "command" /\ Declined(obs.response)) =>
        /\ ~Occurs("execute", obs.events)
        /\ obs.cmd = NoCmd
        /\ ~Occurs("rollback", obs.events)
        /\ ~obs.rb.called
        /\ pc = "exited"
        /\ obs.ret = Cancelled

C1_Witness ==
    /\ pc = "exited"
    /\ obs.mode = "command"
    /\ obs.response = <<>>
    /\ obs.ret = Cancelled

CommandFailed(cmd) == cmd.kind = "timeout" \/ (cmd.kind = "exit" /\ cmd.returncode # 0)

\* C2: in safe_execute, every command failure, a non-zero exit code as well as
\* a timeout, is reported and followed by the rollback prompt.
C2_FailurePromptsRollback ==
    (obs.mode = "command" /\ CommandFailed(obs.cmd)) =>
        /\ Occurs("report_failure", obs.events)
        /\ Occurs("rollback_prompt", obs.events)

\* C3: in safe_execute, the rollback prompt comes only after the command was
\* executed and failed, and rollback_snapshot is only invoked with the id of
\* the snapshot created at the start of the same call, whose directory exists
\* at that moment.
C3_RollbackOnlyAfterFailure ==
    obs.mode = "command" =>
        /\ \A i \in DOMAIN obs.events :
              obs.events[i] = "rollback_prompt" =>
                 /\ \E j \in 1..(i - 1) : obs.events[j] = "execute"
                 /\ obs.cmd.kind = "exit"
                 /\ obs.cmd.returncode # 0
                 /\ obs.response \in YesSpellings
                 /\ ~Occurs("report_success", obs.events)
        /\ obs.rb.called =>
              /\ Occurs("rollback_prompt", obs.events)
              /\ obs.rb.id = obs.snapshot
              /\ \E c \in created : c.snapshot_id = obs.rb.id
              /\ obs.rb.existed

C3_Witness ==
    /\ obs.mode = "command"
    /\ obs.rb.called
    /\ obs.rb.result
    /\ obs.rb.id = obs.snapshot

\* C4: when the command failed and the answer to the rollback prompt is not a
\* yes, rollback_snapshot is not invoked, no file, registry value or snapshot
\* directory changes after the command finished, and the call returns
\* (False, captured stdout, captured stderr).
C4_DeclinedRollbackLeavesFiles ==
    [][(pc = "rollback_prompt" /\ Declined(obs'.rollback)) =>
          /\ originals' = originals
          /\ registry' = registry
          /\ dirs' = dirs
          /\ ~obs'.rb.called
          /\ ~Occurs("rollback", obs'.events)
          /\ obs'.ret = Return(FALSE, obs.cmd.stdout, obs.cmd.stderr)]_vars

C4_Witness ==
    /\ pc = "exited"
    /\ obs.rollback = <<"n", "o">>
    /\ obs.cmd.stdout = "out"
    /\ obs.ret = Return(FALSE, "out", "err")
    /\ originals[BashrcPath] = "v1"

\* C5: rollback_snapshot with an id whose directory does not exist returns
\* False and changes no original file, no registry value and no snapshot
\* directory.
C5_MissingSnapshotNoEffect ==
    [][(~obs.rb.called /\ obs'.rb.called /\ ~Exists(dirs, PathJoin(backup_dir, obs'.rb.id))) =>
          /\ ~obs'.rb.result
          /\ originals' = originals
          /\ registry' = registry
          /\ dirs' = dirs]_vars

C5_Witness ==
    /\ obs.mode = "rollback"
    /\ obs.rb.called
    /\ obs.rb.id = MissingId
    /\ ~obs.rb.existed
    /\ ~obs.rb.result

MappedNames == {<<".bashrc">>, <<"config">>, <<"hosts">>}

\* the restoration table as the specification gives it
MappedLocation(n) ==
    CASE n = <<".bashrc">> -> BashrcPath
      [] n = <<"config">> -> SshConfigPath
      [] n = <<"hosts">> -> HostsPath

\* this step is a call of rollback_snapshot on a directory that exists
RollsBack == ~obs.rb.called /\ obs'.rb.called /\ Exists(dirs, PathJoin(backup_dir, obs'.rb.id))

RolledBackDir == Entries(dirs, PathJoin(backup_dir, obs'.rb.id))

Unmapped(n) == n \notin MappedNames \cup {MetadataName, RegBackupName}

HoldsUnmapped(entries) == \E n \in DOMAIN entries : Unmapped(n)

\* no original changes except at the mapped locations of the snapshot's files
OnlyMappedChange ==
    \A p \in OriginalPaths :
        p \notin {MappedLocation(n) : n \in MappedNames \cap DOMAIN RolledBackDir}
            => originals'[p] = originals[p]

Suffix(s, n) == SubSeq(s, Len(s) - n + 1, Len(s))

\* C8: once create_system_snapshot(operation_name) has returned an id,
\* list_snapshots() holds a record with that snapshot_id, that operation, and
\* the timestamp that ends the id, whatever was done since.
C8_CreatedIsListed ==
    \A c \in created : \A r \in list_snapshots(dirs) :
        /\ ~r.raised
        /\ \E i \in DOMAIN r.value :
              /\ r.value[i].snapshot_id = c.snapshot_id
              /\ r.value[i].operation = c.operation
              /\ r.value[i].timestamp = Suffix(c.snapshot_id, TsWidth)

\* C9: no operation is fatal: safe_execute always returns a result instead of
\* raising, and every CLI invocation completes normally.
C9_NothingRaises == obs.exit # "exception" /\ obs.ret.kind # "raise"

TimedOut == Return(FALSE, "", TimedOutText)

Ran == pc = "exited" /\ obs.mode = "command" /\ obs.cmd.kind # "none"

\* C10 as stated: exit code 0 gives success with the captured stdout, a
\* non-zero exit code gives failure with the captured stderr, a timeout gives
\* (False, "", "Command timed out"), and no other ending gives that result.
C10_Original ==
    Ran =>
        /\ (obs.cmd.kind = "exit" /\ obs.cmd.returncode = 0) =>
              obs.ret.success /\ obs.ret.stdout = obs.cmd.stdout
        /\ (obs.cmd.kind = "exit" /\ obs.cmd.returncode # 0) =>
              ~obs.ret.success /\ obs.ret.stderr = obs.cmd.stderr
        /\ obs.cmd.kind = "timeout" => obs.ret = TimedOut
        /\ obs.cmd.kind # "timeout" => obs.ret # TimedOut

\* C10 amended: exit code 0 gives success with the captured stdout; a non-zero
\* exit code gives failure with the captured stderr once the rollback prompt
\* was answered, and failure with the read error's text when reading the
\* answer failed; a timeout gives (False, "", "Command timed out"), a result
\* no launch failure gives and a non-zero exit gives only when the command
\* itself wrote exactly that text to stderr and nothing to stdout.
C10_ResultFollowsEnding ==
    Ran =>
        /\ (obs.cmd.kind = "exit" /\ obs.cmd.returncode = 0) =>
              obs.ret = Return(TRUE, obs.cmd.stdout, obs.cmd.stderr)
        /\ (obs.cmd.kind = "exit" /\ obs.cmd.returncode # 0) =>
              obs.ret = IF obs.rollback = EndOfFile
                        THEN Return(FALSE, "", EofText)
                        ELSE Return(FALSE, obs.cmd.stdout, obs.cmd.stderr)
        /\ obs.cmd.kind = "timeout" => obs.ret = TimedOut
        /\ (obs.cmd.kind # "timeout" /\ obs.ret = TimedOut) =>
              /\ obs.cmd.kind = "exit"
              /\ obs.cmd.returncode # 0
              /\ obs.cmd.stdout = ""
              /\ obs.cmd.stderr = TimedOutText

C10_Witness ==
    /\ Ran
    /\ obs.cmd.kind = "timeout"
    /\ obs.ret = TimedOut

\* C11: on Windows, when the snapshot holds a registry export and importing
\* it fails, rollback_snapshot returns False for the whole rollback.
C11_ImportFailureFailsRollback ==
    (obs.rb.called /\ obs.rb.import = "failed") => ~obs.rb.result

C11_Witness ==
    /\ os_name = "nt"
    /\ obs.rb.called
    /\ obs.rb.existed
    /\ obs.rb.import = "failed"
    /\ ~obs.rb.result

SnapshotDir(id) == Entries(dirs, PathJoin(backup_dir, id))

\* C12: when copies of config files fail, create_system_snapshot does not
\* raise: the snapshot id is returned, metadata.json is written, and every
\* other config file that exists is in the snapshot with its content.
C12_CopyFailuresSkipped ==
    (obs.mode = "command" /\ obs.backup_failed # {}) =>
        /\ obs.ret.kind # "raise"
        /\ obs.exit # "exception"
        /\ obs.snapshot \in {c.snapshot_id : c \in created}
        /\ MetadataName \in DOMAIN SnapshotDir(obs.snapshot)
        /\ SnapshotDir(obs.snapshot)[MetadataName].kind = "json"
        /\ SnapshotDir(obs.snapshot)[MetadataName].snapshot_id = obs.snapshot
        /\ pc = "confirm" =>
              \A p \in config_files \ obs.backup_failed :
                  originals[p] # NoFile =>
                      /\ Name(p) \in DOMAIN SnapshotDir(obs.snapshot)
                      /\ SnapshotDir(obs.snapshot)[Name(p)] = TextFile(originals[p])

C12_Witness ==
    /\ pc = "confirm"
    /\ obs.backup_failed = {BashrcPath}
    /\ <<"config">> \in DOMAIN SnapshotDir(obs.snapshot)
    /\ <<".bashrc">> \notin DOMAIN SnapshotDir(obs.snapshot)

\* the snapshot ids under the backup root
SnapshotIds(d) == {Name(p) : p \in {q \in DOMAIN d : Parent(q) = backup_dir}}

\* a safe_execute call starts in this step
SafeExecuteStarts == obs.mode # "command" /\ obs'.mode = "command"

\* C13: every safe_execute call creates exactly one snapshot, before the
\* first prompt and before the command runs; no later step of the call
\* creates another; and the set of snapshot ids under the backup root never
\* shrinks.
C13_OneSnapshotPerCall ==
    [][/\ SnapshotIds(dirs) \subseteq SnapshotIds(dirs')
       /\ SafeExecuteStarts =>
             /\ Cardinality(SnapshotIds(dirs')) = Cardinality(SnapshotIds(dirs)) + 1
             /\ obs'.events = <<"snapshot", "prompt">>
       /\ ~SafeExecuteStarts => SnapshotIds(dirs') = SnapshotIds(dirs)]_vars

\* C14: list_snapshots returns the records newest first: of two adjacent
\* records the earlier one's timestamp is greater than or equal to the later
\* one's, as strings.
C14_NewestFirst ==
    \A r \in list_snapshots(dirs) :
        ~r.raised =>
            \A i \in 1..(Len(r.value) - 1) :
                StrLeq(r.value[i + 1].timestamp, r.value[i].timestamp)

C14_Witness ==
    /\ pc = "exited"
    /\ obs.mode = "snapshots"
    /\ obs.exit = "normal"
    /\ \E r \in list_snapshots(dirs) :
          /\ Len(r.value) >= 2
          /\ r.value[1].timestamp # r.value[2].timestamp

\* the records of the snapshot directories whose metadata.json is a metadata record
GoodRecords(d) == {m \in loaded_metadata(d) : "timestamp" \in DOMAIN m}

\* C15: list_snapshots skips every subdirectory whose metadata.json is
\* missing or is not readable as metadata and returns the records of all
\* other snapshots: a bad directory neither makes the listing fail nor hides
\* a good snapshot.
C15_BadDirectoriesSkipped ==
    obs.mode = "snapshots" =>
        /\ ~obs.raised
        /\ \A r \in list_snapshots(dirs) :
              /\ ~r.raised
              /\ {r.value[i] : i \in DOMAIN r.value} = GoodRecords(dirs)

NothingDone == obs.snapshot = <<>> /\ obs.cmd = NoCmd /\ ~obs.rb.called

C19_CopyBackFailureSkipped ==
    /\ (pc = "exited" /\ obs.rb.called /\ obs.rb.existed
            /\ obs.rb.import # "failed" /\ obs.rb.failed # {}) =>
          /\ obs.rb.result
          /\ \A n \in restorable(SnapshotDir(obs.rb.id)) \ obs.rb.failed :
                originals[original_location(n)] = SnapshotDir(obs.rb.id)[n].text
    /\ (obs.rb.called /\ ~obs.rb.result) =>
          (~obs.rb.existed \/ obs.rb.import = "failed")

C19_Witness ==
    /\ pc = "exited"
    /\ obs.rb.called
    /\ obs.rb.id = OldId
    /\ obs.rb.failed = {<<".bashrc">>}
    /\ obs.rb.result
    /\ originals[BashrcPath] = "v0"
    /\ originals[SshConfigPath] = "v1"

RegistryOperations ==
    {"create_backup", "restore_backup", "read_value", "write_value", "delete_value"}

\* C17: on a platform without registry support the registry module is usable
\* and create_backup, restore_backup, read_value, write_value and delete_value
\* each raise the capability error at once: no export, import, read or
\* modification is attempted and no backup file is made.
C17_UnavailableRaisesCapabilityError ==
    sys_platform # "win32" =>
        /\ imported # "error"
        /\ rcall.op \in RegistryOperations =>
              /\ rcall.outcome = "raise"
              /\ rcall.error = CapabilityError
              /\ rcall.steps = <<>>
              /\ rcall.backup_file = NoBackup

\* C20: write_value and delete_value first take a backup of the key; when the
\* backup cannot be created no modification is attempted; when the
\* modification fails with an error other than not-found, restore_backup is
\* called with the backup file made in this call and the same error is raised
\* to the caller.
C20_BackupBeforeModify ==
    (rcall.op \in {"write_value", "delete_value"} /\ manager.available) =>
        /\ rcall.steps # <<>>
        /\ rcall.steps[1] = "create_backup"
        /\ rcall.backup_file = NoBackup =>
              /\ ~Occurs("modify", rcall.steps)
              /\ rcall.outcome = "raise"
              /\ rcall.error = BackupError
        /\ rcall.modify_error \notin {"none", "FileNotFoundError"} =>
              /\ rcall.steps = <<"create_backup", "modify", "restore_backup">>
              /\ rcall.restored = rcall.backup_file
              /\ rcall.backup_file = reg_backup_file(rcall.at)
              /\ rcall.backup_file \in DOMAIN backup_files
              /\ backup_files[rcall.backup_file].key = reg_exe_key(rcall.key)
              /\ rcall.outcome = "raise"
              /\ rcall.error = rcall.modify_error

C20_Witness ==
    /\ rcall.op = "delete_value"
    /\ rcall.modify_error = "PermissionError"
    /\ rcall.restored = rcall.backup_file
    /\ rcall.backup_file # NoBackup
    /\ rcall.outcome = "raise"

\* well-formed JSON: the text decodes when nesting is not limited
WellFormed(t) == decode(t, Len(t) + 1) = "none"

\* C16: whenever the provider's response is not well-formed JSON,
\* parse_natural_language_command raises nothing and returns the error record
\* {"error": "Failed to parse command"}.
C16_MalformedGivesErrorRecord ==
    (llm.called /\ ~WellFormed(llm.response)) => llm.result = ErrorRecord

\* a rollback_snapshot call is made in this step
RollbackRuns == ~obs.rb.called /\ obs'.rb.called

\* C21: in rollback_snapshot on Windows the registry import comes before the
\* restore loop: a rollback whose registry import fails returns False and
\* leaves every original config file as it was when the rollback began.
C21_ImportFailureRestoresNothing ==
    [][(RollbackRuns /\ obs'.rb.import = "failed") =>
          /\ os_name = "nt"
          /\ ~obs'.rb.result
          /\ originals' = originals]_vars

C21_Witness ==
    /\ pc = "exited"
    /\ obs.mode = "command"
    /\ obs.rb.called
    /\ obs.rb.import = "failed"
    /\ obs.rb.failed = {}
    /\ ~obs.rb.result
    /\ \E n \in restorable(SnapshotDir(obs.rb.id)) :
          originals[original_location(n)] # SnapshotDir(obs.rb.id)[n].text

\* how many times the call went on to run the command
Executions(events) == Cardinality({i \in DOMAIN events : events[i] = "execute"})

\* the command of this call did not end with exit code 0
CommandNotSucceeded == obs.cmd.kind # "none" /\ ~(obs.cmd.kind = "exit" /\ obs.cmd.returncode = 0)

\* C22: within one safe_execute call the command is executed at most once:
\* once it has ended, by an exit code, a timeout or a launch failure, the call
\* only goes on to the rollback prompt or returns; and after a command that
\* did not end with exit code 0 the call returns with the success flag False,
\* whether the rollback was declined, succeeded, failed or never offered.
C22_ExecutedOnceFailureStaysFailed ==
    /\ Executions(obs.events) <= 1
    /\ pc = "execute" => obs.cmd = NoCmd
    /\ obs.cmd # NoCmd =>
          /\ Executions(obs.events) = 1
          /\ pc \in {"rollback_prompt", "exited"}
          /\ pc = "rollback_prompt" => obs.cmd.kind = "exit" /\ obs.cmd.returncode # 0
    /\ (pc = "exited" /\ CommandNotSucceeded) =>
          /\ obs.ret.kind = "return"
          /\ ~obs.ret.success

C22_Witness ==
    /\ pc = "exited"
    /\ CommandNotSucceeded
    /\ Executions(obs.events) = 1
    /\ obs.rb.called
    /\ obs.rb.result
    /\ ~obs.ret.success

C22_WitnessRollbackFailed ==
    /\ pc = "exited"
    /\ CommandNotSucceeded
    /\ obs.rb.called
    /\ ~obs.rb.result
    /\ ~obs.ret.success

====
